---------------------------- MODULE Spec2Model ----------------------------
(***************************************************************************)
(* A model of pngme: the 4-byte chunk type code (src/src/chunk_type.rs),   *)
(* the chunk codec (src/src/chunk.rs) and the container that main.rs       *)
(* drives (mod png, whose file is not among the sources).                  *)
(*                                                                         *)
(* Numbers.  TLC's integers are 32-bit signed, so a Rust u32 or usize does *)
(* not fit in one.  A length or index is held as a two-digit number in     *)
(* base 65536, [hi, lo], of value hi * 65536 + lo; a u32 is one whose hi   *)
(* is below 65536.  A CRC register is held as the set of the positions of  *)
(* its one bits (bit 0 the least significant), on which XOR is the         *)
(* symmetric difference.                                                   *)
(*                                                                         *)
(* Byte buffers.  A Vec<u8> or &[u8] is head ++ (zeros times the byte 0)   *)
(* ++ tail, with tail empty when zeros is 0.  This holds every short       *)
(* buffer as a plain sequence (in head) and also the buffers of 4 GiB that *)
(* the u32 arithmetic of the parser is sensitive to, e.g. vec![0u8; n].    *)
(***************************************************************************)
EXTENDS Integers, Sequences, FiniteSets

Byte == 0..255

\* ------------------------------------------------------------- wide numbers

Base == 2 ^ 16

W(n) == [hi |-> n \div Base, lo |-> n % Base]

WAdd(a, b) ==
    LET s == a.lo + b.lo
    IN  [hi |-> a.hi + b.hi + (s \div Base), lo |-> s % Base]

WLt(a, b) == a.hi < b.hi \/ (a.hi = b.hi /\ a.lo < b.lo)

WLe(a, b) == a = b \/ WLt(a, b)

WMin(a, b) == IF WLt(a, b) THEN a ELSE b

WMax(a, b) == IF WLt(a, b) THEN b ELSE a

\* a - b, and 0 when b exceeds a
WSub(a, b) ==
    IF WLe(a, b) THEN W(0)
    ELSE IF a.lo >= b.lo THEN [hi |-> a.hi - b.hi, lo |-> a.lo - b.lo]
    ELSE [hi |-> a.hi - b.hi - 1, lo |-> a.lo + Base - b.lo]

\* min(a, n) as a plain integer, for a small n
WClamp(a, n) == IF WLt(a, W(n)) THEN a.hi * Base + a.lo ELSE n

\* u32::MAX, src/src/chunk.rs:17 (the largest length() can return)
U32Max == [hi |-> Base - 1, lo |-> Base - 1]

FitsU32(a) == a.hi < Base

\* u32::from_be_bytes, src/src/chunk.rs:55
u32_from_be_bytes(s) == [hi |-> s[1] * 256 + s[2], lo |-> s[3] * 256 + s[4]]

\* u32::to_be_bytes, src/src/chunk.rs:40
u32_to_be_bytes(a) == <<a.hi \div 256, a.hi % 256, a.lo \div 256, a.lo % 256>>

\* -------------------------------------------------------------- bit vectors

Xor(A, B) == (A \ B) \cup (B \ A)

BitsOfByte(b) == {i \in 0..7 : (b \div (2 ^ i)) % 2 = 1}

\* the four big-endian bytes of a register, and back (chunk.rs:43, :70)
ByteAt(x, sh) ==
    LET B(j) == IF (sh + j) \in x THEN 2 ^ j ELSE 0
    IN  B(0) + B(1) + B(2) + B(3) + B(4) + B(5) + B(6) + B(7)

BitsToBe(x) == <<ByteAt(x, 24), ByteAt(x, 16), ByteAt(x, 8), ByteAt(x, 0)>>

BitsFromBe(s) ==
    {i \in 0..31 : (s[4 - (i \div 8)] \div (2 ^ (i % 8))) % 2 = 1}

\* ---------------------------------------------------------- CRC-32/ISO-HDLC
\* crc::CRC_32_ISO_HDLC (chunk.rs:29): reflected, polynomial 0x04C11DB7
\* (0xEDB88320 reflected), initial value and final XOR 0xFFFFFFFF.

CrcPoly == {5, 8, 9, 15, 19, 20, 21, 23, 24, 26, 27, 29, 30, 31}

CrcInit == 0..31

CrcXorOut == 0..31

ShiftRight(r) == {i - 1 : i \in r \ {0}}

CrcBitStep(r) == IF 0 \in r THEN Xor(ShiftRight(r), CrcPoly) ELSE ShiftRight(r)

\* one byte: XOR it into the low bits, then eight bit steps
CrcByteStep(r, b) ==
    CrcBitStep(CrcBitStep(CrcBitStep(CrcBitStep(
    CrcBitStep(CrcBitStep(CrcBitStep(CrcBitStep(Xor(r, BitsOfByte(b))))))))))

\* (q is bound by \in so that each byte's register is computed before the
\* next byte is taken.)
RECURSIVE CrcUpdateFrom(_, _, _)
CrcUpdateFrom(r, s, i) ==
    IF i > Len(s) THEN r
    ELSE UNION {CrcUpdateFrom(q, s, i + 1) : q \in {CrcByteStep(r, s[i])}}

\* the register after the bytes of the sequence s
CrcUpdate(r, s) == CrcUpdateFrom(r, s, 1)

\* Feeding n zero bytes.  With a zero input bit CrcBitStep multiplies the
\* register, read as a polynomial over GF(2) with bit 31 the coefficient of
\* x^0 and bit 0 that of x^31, by x modulo the CRC polynomial; n zero bytes
\* multiply it by x^(8n).  The powers of x needed are tables, computed once.

BitPos == 0..31

PolyOne == {31}

\* v, with w computed before it
After(w, v) == <<w, v>>[2]

\* b * x^j modulo the CRC polynomial for j in 0..(n - 1), at index j + 1
RECURSIVE PolyShiftsFrom(_, _)
PolyShiftsFrom(b, n) ==
    IF n = 0 THEN <<>> ELSE <<b>> \o PolyShiftsFrom(CrcBitStep(b), n - 1)

\* x^d modulo the CRC polynomial for d in 0..31, and for d in 32..62
XPowLow == PolyShiftsFrom(PolyOne, 32)

XPowHigh == PolyShiftsFrom(CrcBitStep(XPowLow[32]), 31)

XPowMod == XPowLow \o XPowHigh

\* the product of a and b as polynomials over GF(2), not reduced: the set of
\* the degrees d in 0..62 of its terms (bit i is the term of degree 31 - i)
PolyConv(a, b) ==
    {d \in 0..62 : Cardinality({i \in a : (62 - d - i) \in b}) % 2 = 1}

\* the polynomial with the terms of the degrees in c, modulo the CRC polynomial
PolyReduce(c) ==
    {k \in BitPos : Cardinality({d \in c : k \in XPowMod[d + 1]}) % 2 = 1}

\* a * b modulo the CRC polynomial
PolyMul(a, b) == PolyReduce(PolyConv(a, b))

\* 1, b, b^2, ..., b^(n - 1), from acc on
RECURSIVE PolyPowersFrom(_, _, _)
PolyPowersFrom(acc, b, n) ==
    IF n = 0 THEN <<>> ELSE <<acc>> \o PolyPowersFrom(PolyMul(acc, b), b, n - 1)

\* x^8: one zero byte
PolyZeroByte == CrcByteStep(PolyOne, 0)

\* Row j + 1, for j in 0..(n - 1), holds b^(d * 16^j) for d in 0..15 at index
\* d + 1; row is the row of b.
RECURSIVE ZeroRunRowsFrom(_, _)
ZeroRunRowsNext(row, b, n) ==
    <<row>> \o ZeroRunRowsFrom(PolyMul(row[16], b), n - 1)

ZeroRunRowsFrom(b, n) ==
    IF n = 0 THEN <<>> ELSE ZeroRunRowsNext(PolyPowersFrom(PolyOne, b, 16), b, n)

\* x^(8 * d * 16^j) for the nine hexadecimal digits of a length up to 2^32
ZeroRunTable == ZeroRunRowsFrom(PolyZeroByte, 9)

\* digit j of n to the base 16
HexDigit(n, j) ==
    IF j < 4 THEN (n.lo \div (16 ^ j)) % 16 ELSE (n.hi \div (16 ^ (j - 4))) % 16

\* r * x^(8n), digit by digit from digit j on
RECURSIVE CrcZerosFrom(_, _, _)
CrcZerosFrom(r, n, j) ==
    IF j > 8 THEN r
    ELSE After(r, CrcZerosFrom(PolyMul(r, ZeroRunTable[j + 1][HexDigit(n, j) + 1]),
                               n, j + 1))

\* the register after n zero bytes
CrcZeros(r, n) == IF n = W(0) THEN r ELSE CrcZerosFrom(r, n, 0)

\* crc::Crc::<u32>::checksum over a buffer (chunk.rs:32)
checksum(buf) ==
    Xor(CrcUpdate(CrcZeros(CrcUpdate(CrcInit, buf.head), buf.zeros), buf.tail),
        CrcXorOut)

\* ------------------------------------------------------------- byte buffers
\* head ++ zeros * <<0>> ++ tail.  The form is canonical, so that equal byte
\* strings are equal values: a run of zeros is kept apart only when it is at
\* least Base bytes long, and then it is maximal (head does not end and tail
\* does not start with a 0).

Bytes(s) == [head |-> s, zeros |-> W(0), tail |-> <<>>]

RECURSIVE TrailingZeros(_)
TrailingZeros(s) ==
    IF s # <<>> /\ s[Len(s)] = 0
    THEN 1 + TrailingZeros(SubSeq(s, 1, Len(s) - 1)) ELSE 0

RECURSIVE LeadingZeros(_)
LeadingZeros(s) ==
    IF s # <<>> /\ s[1] = 0 THEN 1 + LeadingZeros(Tail(s)) ELSE 0

Norm(h, z, t) ==
    LET a == TrailingZeros(h)
        b == LeadingZeros(t)
        run == WAdd(z, W(a + b))
    IN  IF run.hi = 0
        THEN Bytes(h \o [i \in 1..z.lo |-> 0] \o t)
        ELSE [head |-> SubSeq(h, 1, Len(h) - a), zeros |-> run,
              tail |-> SubSeq(t, b + 1, Len(t))]

\* vec![0u8; n]
ZeroVec(n) == Norm(<<>>, n, <<>>)

\* Vec::len, <[u8]>::len
BufLen(v) == WAdd(WAdd(W(Len(v.head)), v.zeros), W(Len(v.tail)))

\* &v[a..b], for a <= b <= len
Slice(v, a, b) ==
    LET hl == Len(v.head)
        tl == Len(v.tail)
        zend == WAdd(W(hl), v.zeros)
    IN  Norm(SubSeq(v.head, WClamp(a, hl) + 1, WClamp(b, hl)),
             WSub(WMin(b, zend), WMax(a, W(hl))),
             SubSeq(v.tail, WClamp(WSub(a, zend), tl) + 1,
                    WClamp(WSub(b, zend), tl)))

\* Vec::extend_from_slice / concat; at most one of the two holds a long run
Concat(u, v) ==
    IF u.zeros = W(0) THEN Norm(u.head \o v.head, v.zeros, v.tail)
    ELSE Norm(u.head, u.zeros, u.tail \o v.head)

\* the bytes of a buffer without a long run, as a sequence
ToSeq(v) == v.head

\* the byte at offset a < len
ByteOf(v, a) == ToSeq(Slice(v, a, WAdd(a, W(1))))[1]

\* --------------------------------------------------- outcomes of a call
\* Ok and Err are the two values of a Result; Panic is the unwinding of the
\* call, which returns nothing to the caller.

Ok(v) == [tag |-> "Ok", val |-> v]

Err(e) == [tag |-> "Err", val |-> e]

Panic(m) == [tag |-> "Panic", val |-> m]

\* ------------------------------------------------------------ chunk_type.rs

is_ascii_uppercase(b) == b \in 65..90

is_ascii_lowercase(b) == b \in 97..122

is_ascii_alphabetic(b) == is_ascii_uppercase(b) \/ is_ascii_lowercase(b)

\* std::str::from_utf8: whether the bytes from position i on are well formed
RECURSIVE Utf8From(_, _)
Utf8From(s, i) ==
    LET Cont(k) == k <= Len(s) /\ s[k] \in 128..191
        In(k, lo, hi) == k <= Len(s) /\ s[k] \in lo..hi
        b == s[i]
    IN  IF i > Len(s) THEN TRUE
        ELSE IF b < 128 THEN Utf8From(s, i + 1)
        ELSE IF b \in 194..223 THEN Cont(i + 1) /\ Utf8From(s, i + 2)
        ELSE IF b = 224 THEN In(i + 1, 160, 191) /\ Cont(i + 2) /\ Utf8From(s, i + 3)
        ELSE IF b \in (225..236) \cup (238..239)
             THEN Cont(i + 1) /\ Cont(i + 2) /\ Utf8From(s, i + 3)
        ELSE IF b = 237 THEN In(i + 1, 128, 159) /\ Cont(i + 2) /\ Utf8From(s, i + 3)
        ELSE IF b = 240
             THEN In(i + 1, 144, 191) /\ Cont(i + 2) /\ Cont(i + 3) /\ Utf8From(s, i + 4)
        ELSE IF b \in 241..243
             THEN Cont(i + 1) /\ Cont(i + 2) /\ Cont(i + 3) /\ Utf8From(s, i + 4)
        ELSE IF b = 244
             THEN In(i + 1, 128, 143) /\ Cont(i + 2) /\ Cont(i + 3) /\ Utf8From(s, i + 4)
        ELSE FALSE

\* a &str or String is the sequence of its UTF-8 bytes
IsStr(s) == Utf8From(s, 1)

bytes(ct) == ct.chunk_type

is_critical(ct) == is_ascii_uppercase(ct.chunk_type[1])

is_public(ct) == is_ascii_uppercase(ct.chunk_type[2])

is_reserved_bit_valid(ct) == is_ascii_uppercase(ct.chunk_type[3])

\* a faulty variant: the fourth byte tested for upper case, like the others
is_safe_to_copy_upper(ct) == is_ascii_uppercase(ct.chunk_type[4])

is_safe_to_copy(ct) == is_ascii_lowercase(ct.chunk_type[4])

is_valid(ct) ==
    IF \E i \in 1..4 : ~is_ascii_alphabetic(ct.chunk_type[i])
    THEN FALSE
    ELSE is_reserved_bit_valid(ct)

\* a faulty variant: digits accepted too (is_ascii_alphanumeric)
ChunkType_try_from_alnum(value) ==
    IF \E i \in 1..4 : ~(is_ascii_alphabetic(value[i]) \/ value[i] \in 48..57)
    THEN Err("ChunkType can only contain ascii alphabetical (A-Z and a-z)")
    ELSE Ok([chunk_type |-> value])

\* impl TryFrom<[u8; 4]> for ChunkType
ChunkType_try_from(value) ==
    IF \E i \in 1..4 : ~is_ascii_alphabetic(value[i])
    THEN Err("ChunkType can only contain ascii alphabetical (A-Z and a-z)")
    ELSE Ok([chunk_type |-> value])

\* impl FromStr for ChunkType
from_str(s) ==
    IF Len(s) # 4
    THEN Err("ChunkType must be 4-byte long.")
    ELSE ChunkType_try_from(<<s[1], s[2], s[3], s[4]>>)

\* impl PartialEq for ChunkType
ChunkType_eq(a, b) == bytes(a) = bytes(b)

\* a faulty variant: the text is written in upper case
ChunkType_to_string_upper(ct) ==
    Ok([i \in 1..4 |-> IF is_ascii_lowercase(ct.chunk_type[i])
                       THEN ct.chunk_type[i] - 32 ELSE ct.chunk_type[i]])

\* impl Display for ChunkType: the text written, or the panic of the unwrap
ChunkType_to_string(ct) ==
    IF IsStr(ct.chunk_type) THEN Ok(ct.chunk_type) ELSE Panic("Utf8Error")

\* ------------------------------------------------------------------ chunk.rs

new(chunk_type, data) == [chunk_type |-> chunk_type, chunk_data |-> data]

\* Chunk::length: the u32, or the panic of the expect
length(c) ==
    IF FitsU32(BufLen(c.chunk_data))
    THEN Ok(BufLen(c.chunk_data))
    ELSE Panic("Length is too large to fit in a u32")

data(c) == c.chunk_data

crc(c) == checksum(Concat(Bytes(bytes(c.chunk_type)), data(c)))

\* Chunk::data_as_string
data_as_string(c) ==
    IF IsStr(ToSeq(data(c))) THEN Ok(ToSeq(data(c))) ELSE Err("FromUtf8Error")

\* a faulty variant: the length written little-endian (to_le_bytes)
as_bytes_le(c) ==
    LET be == u32_to_be_bytes(length(c).val)
    IN  IF length(c).tag = "Panic" THEN length(c)
        ELSE Ok(Concat(Concat(Concat(Bytes(<<be[4], be[3], be[2], be[1]>>),
                                     Bytes(bytes(c.chunk_type))),
                              data(c)),
                       Bytes(BitsToBe(crc(c)))))

\* Chunk::as_bytes: the Vec returned (as Ok), or the panic of length()
as_bytes(c) ==
    IF length(c).tag = "Panic" THEN length(c)
    ELSE Ok(Concat(Concat(Concat(Bytes(u32_to_be_bytes(length(c).val)),
                                 Bytes(bytes(c.chunk_type))),
                          data(c)),
                   Bytes(BitsToBe(crc(c)))))

\* a faulty variant: the first four bytes of a longer slice are taken
\* (value[end..end + 4])
try_into_array4_prefix(slice, msg) ==
    IF WLe(W(4), BufLen(slice))
    THEN Ok(ToSeq(Slice(slice, W(0), W(4)))) ELSE Panic(msg)

\* <[u8; 4]>::try_from(&[u8]).expect(..): the four bytes, or the panic
try_into_array4(slice, msg) ==
    IF BufLen(slice) = W(4) THEN Ok(ToSeq(slice)) ELSE Panic(msg)

\* impl TryFrom<&[u8]> for Chunk.  overflow_checks is the build's setting:
\* with it (debug) 8 + data_len panics when it exceeds u32::MAX, without it
\* (release) the sum wraps.
Chunk_try_from(value, overflow_checks) ==
    LET n == BufLen(value)
        data_len == u32_from_be_bytes(ToSeq(Slice(value, W(0), W(4))))
        chunk_type_bytes == ToSeq(Slice(value, W(4), W(8)))
        chunk_type == ChunkType_try_from(chunk_type_bytes)
        sum == WAdd(W(8), data_len)
        end_of_data_index == [hi |-> sum.hi % Base, lo |-> sum.lo]
        new_chunk == [chunk_type |-> chunk_type.val,
                      chunk_data |-> Slice(value, W(8), end_of_data_index)]
        crc_bytes == try_into_array4(Slice(value, end_of_data_index, n),
                                     "Chunk crc slice should be of length 4")
    IN  IF WLt(n, W(4)) THEN Panic("range end index 4 out of range for slice")
        ELSE IF WLt(n, W(8)) THEN Panic("range end index 8 out of range for slice")
        ELSE IF chunk_type.tag = "Err" THEN Panic(chunk_type.val)
        ELSE IF overflow_checks /\ ~FitsU32(sum)
             THEN Panic("attempt to add with overflow")
        ELSE IF WLt(end_of_data_index, W(8))
             THEN Panic("slice index starts at 8 but ends before it")
        ELSE IF WLt(n, end_of_data_index)
             THEN Panic("range end index out of range for slice")
        ELSE IF crc_bytes.tag = "Panic" THEN crc_bytes
        ELSE IF crc(new_chunk) # BitsFromBe(crc_bytes.val)
             THEN Err("Crc doesn't match")
        ELSE Ok(new_chunk)

\* ---------------------------------------------------------------- container
\* mod png (main.rs:5): the container main.rs drives through append_chunk
\* (main.rs:36) and remove_first_chunk (main.rs:49).  Its file is not among
\* the sources; it is modelled from the specification's section 4.3.  The
\* container is the ordered sequence of its chunks.

Png_append_chunk(chunks, c) == Append(chunks, c)

\* the positions whose type code, rendered as text, equals the text t
Png_matches(chunks, t) ==
    {i \in 1..Len(chunks) : ChunkType_to_string(chunks[i].chunk_type) = Ok(t)}

\* the outcome and the chunk sequence left behind
Png_remove_first_chunk(chunks, t) ==
    LET m == Png_matches(chunks, t)
        i == CHOOSE k \in m : \A j \in m : k <= j
    IN  IF m = {}
        THEN [res |-> Err("chunk not found"), chunks |-> chunks]
        ELSE [res |-> Ok(chunks[i]),
              chunks |-> SubSeq(chunks, 1, i - 1) \o SubSeq(chunks, i + 1, Len(chunks))]

\* ==================================================================== state

VARIABLES
    overflow_checks,  \* the build: TRUE debug (overflow panics), FALSE release
    chunk,            \* the Chunk built by Chunk::new
    value,            \* the byte slice: as_bytes' output, possibly edited
    edit,             \* what was done to value after as_bytes
    result,           \* the outcome of the last as_bytes or try_from
    pc,               \* how far the chunk scenario has come
    ct_call,          \* the last type-code constructor call and its argument
    ct_result,        \* its outcome
    ct_flags,         \* the five predicates read from the constructed code
    png,              \* the container's chunks, in order
    png_before,       \* the chunks before the last container call
    png_call,         \* the last container call and its argument
    png_result        \* its outcome

chunkVars == <<overflow_checks, chunk, value, edit, result, pc>>

typeVars == <<ct_call, ct_result, ct_flags>>

pngVars == <<png, png_before, png_call, png_result>>

vars == <<chunkVars, typeVars, pngVars>>

\* ------------------------------------------------------------------- bounds

\* longest data of a chunk whose bytes are all written out
MaxDataLen == 2

\* longest text handed to from_str
MaxStrLen == 5

\* most chunks in the container
MaxChunks == 3

\* ------------------------------------------------------------------- inputs

SeqsUpTo(S, n) == UNION {[1..k -> S] : k \in 0..n}

\* "RuSt" and "IEND"
TypeTexts == {<<82, 117, 83, 116>>, <<73, 69, 78, 68>>}

ChunkTypes == {from_str(t).val : t \in TypeTexts}

DataBytes == {0, 65, 255}

SmallDatas == {Bytes(d) : d \in SeqsUpTo(DataBytes, MaxDataLen)}

\* The data lengths of 4 GiB the model draws: the largest for which the
\* parser's 8 + data_len still fits in a u32, the smallest for which it does
\* not, u32::MAX, and the smallest that length() cannot return.
HugeLens ==
    {WSub(U32Max, W(8)), WSub(U32Max, W(7)), U32Max, WAdd(U32Max, W(1))}

HugeDatas == {ZeroVec(n) : n \in HugeLens}

SmallChunks == {new(t, d) : t \in ChunkTypes, d \in SmallDatas}

\* declared lengths written over the length field
LengthSamples ==
    {W(0), W(1), W(3), [hi |-> 32768, lo |-> 0],
     WSub(U32Max, W(8)), WSub(U32Max, W(7)), U32Max}

\* bytes of the texts of every length up to MaxStrLen: A, a, 1, and the two
\* bytes of U+00E9
LenBytes == {65, 97, 49, 195, 169}

\* bytes of the 4-byte texts: @ A Z [ ` a z {, 1, and the two bytes of U+00E9
StrBytes == {64, 65, 90, 91, 96, 97, 122, 123, 49, 195, 169}

\* "RuSt", "Rust", "Ru1t"
NamedTexts == {<<82, 117, 83, 116>>, <<82, 117, 115, 116>>, <<82, 117, 49, 116>>}

\* the &str arguments: well-formed UTF-8 only
StrInputs ==
    {s \in SeqsUpTo(LenBytes, MaxStrLen) \cup [1..4 -> StrBytes] : IsStr(s)}
        \cup NamedTexts

\* bytes of the [u8; 4] arguments
RawBytes == {0, 49, 64, 65, 90, 91, 96, 97, 122, 123, 128, 255}

RawInputs == [1..4 -> RawBytes]

\* "AAAA", "BBBB", "AAAa"
PngTypeTexts == {<<65, 65, 65, 65>>, <<66, 66, 66, 66>>, <<65, 65, 65, 97>>}

PngChunks == {new(from_str(t).val, Bytes(d)) : t \in PngTypeTexts, d \in {<<>>, <<1>>}}

\* the texts asked for: the three above, "aaaa", "CCCC", "AAA" and ""
PngAsked ==
    PngTypeTexts \cup {<<97, 97, 97, 97>>, <<67, 67, 67, 67>>, <<65, 65, 65>>, <<>>}

\* ------------------------------------------------------------- idle values

NoChunk == [chunk_type |-> [chunk_type |-> <<>>], chunk_data |-> Bytes(<<>>)]

NoEdit == [kind |-> "none", at |-> W(0), arg |-> 0]

NoResult == [tag |-> "None", val |-> ""]

NoCall == [fn |-> "none", arg |-> <<>>]

NoFlags == [read |-> FALSE, bytes |-> <<>>, valid |-> FALSE, critical |-> FALSE,
            public |-> FALSE, reserved_bit_valid |-> FALSE, safe_to_copy |-> FALSE]

ChunkIdle ==
    /\ chunk = NoChunk
    /\ value = Bytes(<<>>)
    /\ edit = NoEdit
    /\ result = NoResult
    /\ pc = "start"

TypeIdle == ct_call = NoCall /\ ct_result = NoResult /\ ct_flags = NoFlags

PngIdle ==
    /\ png = <<>>
    /\ png_before = <<>>
    /\ png_call = NoCall
    /\ png_result = NoResult

\* ------------------------------------------------------ the chunk scenario
\* Chunk::new, then as_bytes, then at most one edit of the bytes, then
\* Chunk::try_from on them.

InitChunk == overflow_checks \in BOOLEAN /\ ChunkIdle /\ TypeIdle /\ PngIdle

NewChunk ==
    /\ pc = "start"
    /\ \E t \in ChunkTypes, d \in SmallDatas \cup HugeDatas : chunk' = new(t, d)
    /\ value' = Bytes(<<>>)
    /\ edit' = NoEdit
    /\ result' = NoResult
    /\ pc' = "new"
    /\ UNCHANGED <<overflow_checks, typeVars, pngVars>>

Serialize ==
    /\ pc = "new"
    /\ result' = as_bytes(chunk)
    /\ value' = IF result'.tag = "Ok" THEN result'.val ELSE value
    /\ pc' = IF result'.tag = "Ok" THEN "serialized" ELSE "panicked"
    /\ UNCHANGED <<overflow_checks, chunk, edit, typeVars, pngVars>>

\* the offsets of the bytes of v that are written out
WrittenOffsets(v) ==
    {W(i) : i \in 0..(Len(v.head) - 1)}
        \cup {WAdd(WAdd(W(Len(v.head)), v.zeros), W(j)) : j \in 0..(Len(v.tail) - 1)}

FlippedByte(b, k) == IF (b \div (2 ^ k)) % 2 = 1 THEN b - 2 ^ k ELSE b + 2 ^ k

WithByte(v, at, b) ==
    Concat(Concat(Slice(v, W(0), at), Bytes(<<b>>)),
           Slice(v, WAdd(at, W(1)), BufLen(v)))

Edited(e) ==
    /\ edit' = e
    /\ result' = NoResult
    /\ pc' = "edited"
    /\ UNCHANGED <<overflow_checks, chunk, typeVars, pngVars>>

FlipBit ==
    /\ pc = "serialized"
    /\ \E at \in WrittenOffsets(value), k \in 0..7 :
        /\ value' = WithByte(value, at, FlippedByte(ByteOf(value, at), k))
        /\ Edited([kind |-> "flip", at |-> at, arg |-> k])

Truncate ==
    /\ pc = "serialized"
    /\ \E k \in 0..(Len(value.head) + Len(value.tail)) :
        /\ WLt(W(k), BufLen(value))
        /\ value' = Slice(value, W(0), W(k))
        /\ Edited([kind |-> "truncate", at |-> W(k), arg |-> 0])

AppendByte ==
    /\ pc = "serialized"
    /\ \E b \in DataBytes :
        /\ value' = Concat(value, Bytes(<<b>>))
        /\ Edited([kind |-> "append", at |-> BufLen(value), arg |-> b])

AppendChunk ==
    /\ pc = "serialized"
    /\ \E c \in SmallChunks :
        /\ value' = Concat(value, as_bytes(c).val)
        /\ Edited([kind |-> "concat", at |-> BufLen(value), arg |-> 0])

SetLength ==
    /\ pc = "serialized"
    /\ \E l \in LengthSamples :
        /\ value' = Concat(Bytes(u32_to_be_bytes(l)), Slice(value, W(4), BufLen(value)))
        /\ Edited([kind |-> "length", at |-> W(0), arg |-> 0])

Parse ==
    /\ pc \in {"serialized", "edited"}
    /\ result' = Chunk_try_from(value, overflow_checks)
    /\ pc' = "parsed"
    /\ UNCHANGED <<overflow_checks, chunk, value, edit, typeVars, pngVars>>

NextChunk ==
    \/ NewChunk
    \/ Serialize
    \/ FlipBit
    \/ Truncate
    \/ AppendByte
    \/ AppendChunk
    \/ SetLength
    \/ Parse

Spec == InitChunk /\ [][NextChunk]_vars

\* ------------------------------------------------------- the type scenario
\* One call of a constructor of ChunkType, then, on Ok, a reading of bytes()
\* and of the five predicates.

InitType == overflow_checks = TRUE /\ ChunkIdle /\ TypeIdle /\ PngIdle

CallFromStr ==
    /\ ct_call = NoCall
    /\ \E s \in StrInputs :
        /\ ct_call' = [fn |-> "from_str", arg |-> s]
        /\ ct_result' = from_str(s)
    /\ UNCHANGED <<ct_flags, chunkVars, pngVars>>

CallTryFrom ==
    /\ ct_call = NoCall
    /\ \E b \in RawInputs :
        /\ ct_call' = [fn |-> "try_from", arg |-> b]
        /\ ct_result' = ChunkType_try_from(b)
    /\ UNCHANGED <<ct_flags, chunkVars, pngVars>>

Inspect ==
    /\ ct_result.tag = "Ok"
    /\ ~ct_flags.read
    /\ ct_flags' = [read |-> TRUE,
                    bytes |-> bytes(ct_result.val),
                    valid |-> is_valid(ct_result.val),
                    critical |-> is_critical(ct_result.val),
                    public |-> is_public(ct_result.val),
                    reserved_bit_valid |-> is_reserved_bit_valid(ct_result.val),
                    safe_to_copy |-> is_safe_to_copy(ct_result.val)]
    /\ UNCHANGED <<ct_call, ct_result, chunkVars, pngVars>>

NextType ==
    \/ CallFromStr
    \/ CallTryFrom
    \/ Inspect

SpecType == InitType /\ [][NextType]_vars

\* -------------------------------------------------- the container scenario
\* Appends, up to MaxChunks chunks, and removals by type text, in any order.

InitPng == overflow_checks = TRUE /\ ChunkIdle /\ TypeIdle /\ PngIdle

PngAppend ==
    /\ Len(png) < MaxChunks
    /\ \E c \in PngChunks :
        /\ png' = Png_append_chunk(png, c)
        /\ png_call' = [fn |-> "append_chunk", arg |-> c]
    /\ png_before' = png
    /\ png_result' = NoResult
    /\ UNCHANGED <<chunkVars, typeVars>>

PngRemove ==
    /\ \E t \in PngAsked :
        /\ png' = Png_remove_first_chunk(png, t).chunks
        /\ png_result' = Png_remove_first_chunk(png, t).res
        /\ png_call' = [fn |-> "remove_first_chunk", arg |-> t]
    /\ png_before' = png
    /\ UNCHANGED <<chunkVars, typeVars>>

NextPng ==
    \/ PngAppend
    \/ PngRemove

SpecPng == InitPng /\ [][NextPng]_vars

\* =================================================================== claims

AsciiLetter(b) == b \in (65..90) \cup (97..122)

\* the byte slice handed to try_from, read as the wire format reads it
ValueLen == BufLen(value)

HasHeader == WLe(W(8), ValueLen)

DeclaredLen == u32_from_be_bytes(ToSeq(Slice(value, W(0), W(4))))

TypeField == ToSeq(Slice(value, W(4), W(8)))

FrameLen == WAdd(DeclaredLen, W(12))

StoredCrc == BitsFromBe(ToSeq(Slice(value, WAdd(DeclaredLen, W(8)), FrameLen)))

ComputedCrc == checksum(Slice(value, W(4), WAdd(DeclaredLen, W(8))))

\* C1: round trip.  For every type code and every data whose length fits in
\* 32 bits, try_from on the bytes as_bytes produced, unaltered, returns Ok with
\* a chunk of the same type code, data, length and CRC.
RoundTrip ==
    (pc = "parsed" /\ edit = NoEdit) =>
        /\ result.tag = "Ok"
        /\ result.val.chunk_type = chunk.chunk_type
        /\ result.val.chunk_data = chunk.chunk_data
        /\ length(result.val) = length(chunk)
        /\ crc(result.val) = crc(chunk)

\* C2: serialization layout.  What as_bytes returns is the big-endian length
\* of the data, the 4 type bytes, the data, and the big-endian CRC-32 of type
\* and data: len(d) + 12 bytes, the length field equal to the data carried.
SerializationLayout ==
    pc = "serialized" =>
        LET d == chunk.chunk_data
            L == BufLen(d)
        IN  /\ ValueLen = WAdd(L, W(12))
            /\ DeclaredLen = L
            /\ TypeField = chunk.chunk_type.chunk_type
            /\ Slice(value, W(8), WAdd(L, W(8))) = d
            /\ StoredCrc = checksum(Concat(Bytes(chunk.chunk_type.chunk_type), d))

\* C2, witness: a chunk of 4 GiB of data has been serialized.
SerializedHuge == pc = "serialized" /\ chunk.chunk_data.zeros # W(0)

\* C3: CRC mismatch is an error value.  On an input of exactly 8 + L + 4 bytes
\* with a valid type code, try_from returns Err whenever the CRC field differs
\* from the CRC of type and data, and Ok only when they are equal.
CrcMismatchIsError ==
    (/\ pc = "parsed"
     /\ HasHeader
     /\ \A i \in 1..4 : AsciiLetter(TypeField[i])
     /\ ValueLen = FrameLen) =>
        /\ StoredCrc # ComputedCrc => result.tag = "Err"
        /\ result.tag = "Ok" => StoredCrc = ComputedCrc

\* C4: truncated input is an error value.  On a slice shorter than 8 + L + 4
\* bytes (shorter than 8 bytes included) try_from returns Err: no panic and no
\* chunk.
TruncatedIsError ==
    (pc = "parsed" /\ (~HasHeader \/ WLt(ValueLen, FrameLen))) =>
        result.tag = "Err"

\* C5: invalid type bytes are an error value.  On an input whose bytes 4..8
\* hold a byte that is no ASCII letter try_from returns Err: no panic and no
\* chunk.
InvalidTypeIsError ==
    (pc = "parsed" /\ HasHeader /\ \E i \in 1..4 : ~AsciiLetter(TypeField[i])) =>
        result.tag = "Err"

\* C6: CRC sensitivity.  With one bit flipped in the length, type or data
\* region of a serialized chunk, try_from returns Err (CrcMismatch or
\* Truncated): no panic and no chunk.
BitFlipIsError ==
    (/\ pc = "parsed"
     /\ edit.kind = "flip"
     /\ WLt(edit.at, WAdd(BufLen(chunk.chunk_data), W(8)))) =>
        result.tag = "Err"

\* C10: exact-length acceptance.  try_from returns Ok only on an input of
\* exactly 8 + L + 4 bytes; bytes after the CRC of the first chunk, one more
\* byte or a whole second chunk, never yield a chunk.
ExactLengthOnly ==
    /\ (pc = "parsed" /\ result.tag = "Ok") => (HasHeader /\ ValueLen = FrameLen)
    /\ (pc = "parsed" /\ edit.kind \in {"append", "concat"}) => result.tag # "Ok"

\* C10, witness: two serialized chunks back to back have been parsed, and no
\* chunk came out.
TrailingChunkParsed ==
    pc = "parsed" /\ edit.kind = "concat" /\ result.tag # "Ok"

\* C7: type-code construction.  from_str is Ok exactly on the texts of 4
\* bytes, all ASCII letters; try_from exactly on 4 bytes, all ASCII letters;
\* bytes() of the code constructed is the input, and from_str and try_from on
\* the same bytes give equal codes.
TypeConstruction ==
    LET letters == \A i \in 1..4 : AsciiLetter(ct_call.arg[i])
    IN  /\ ct_call.fn = "from_str" =>
               (ct_result.tag = "Ok" <=> (Len(ct_call.arg) = 4 /\ letters))
        /\ ct_call.fn = "try_from" => (ct_result.tag = "Ok" <=> letters)
        /\ ct_call.fn # "none" => ct_result.tag \in {"Ok", "Err"}
        /\ ct_flags.read => ct_flags.bytes = ct_call.arg
        /\ (ct_call.fn = "from_str" /\ ct_result.tag = "Ok") =>
               /\ ChunkType_try_from(ct_call.arg).tag = "Ok"
               /\ ChunkType_eq(ct_result.val, ChunkType_try_from(ct_call.arg).val)

\* C7, witness: from_str returned Ok and bytes() has been read.
FromStrOkRead == ct_call.fn = "from_str" /\ ct_result.tag = "Ok" /\ ct_flags.read

\* C8: case flags.  is_critical iff byte 0 is upper case, is_public iff byte 1
\* is, is_reserved_bit_valid iff byte 2 is, is_safe_to_copy iff byte 3 is
\* lower case, and is_valid iff is_reserved_bit_valid.
CaseFlags ==
    ct_flags.read =>
        LET b == ct_call.arg
        IN  /\ ct_flags.critical <=> b[1] \in 65..90
            /\ ct_flags.public <=> b[2] \in 65..90
            /\ ct_flags.reserved_bit_valid <=> b[3] \in 65..90
            /\ ct_flags.safe_to_copy <=> b[4] \in 97..122
            /\ ct_flags.valid <=> ct_flags.reserved_bit_valid

\* C8, witness: a code that is critical, public and safe to copy, and invalid
\* by its third byte alone, has been read.
InvalidByReservedBit ==
    /\ ct_flags.read
    /\ ct_flags.critical /\ ct_flags.public /\ ct_flags.safe_to_copy
    /\ ~ct_flags.reserved_bit_valid /\ ~ct_flags.valid

=============================================================================
